---- MODULE Spec2Model ----
(***************************************************************************)
(* Model of the pandas-project-energy pipeline:                            *)
(*   price_calculator.calculate_clearing_price / merit_order.plot_merit_   *)
(*   order (the merit-order curve and the clearing price),                 *)
(*   data_validation.clean_market_data (the cleaner) and                   *)
(*   data_validation.validate_dataset (the validator).                     *)
(* A DataFrame is a sequence of rows; a row is a record of its cells.      *)
(* Column names are abbreviated in the record fields:                      *)
(*   Price  = 'Lowest to Highest Offer Price ($/MWh)'                      *)
(*   Volume = 'Total Offer Capacity At Specified Offer Price (MW)'         *)
(***************************************************************************)
EXTENDS Integers, Sequences, FiniteSets, TLC

\* ------------------------------------------------------------------------
\* Bounds of the model
\* ------------------------------------------------------------------------
MaxRows == 3
MaxSeqRows == 2
MaxDemand == 4
MaxCleanRows == 2
MaxCleanCalls == 2
MaxValidateRows == 2
MaxOrderRows == 1
MaxUsepRows == 2

\* ------------------------------------------------------------------------
\* Input domains of the clearing-price engine
\* ------------------------------------------------------------------------
Dates == {"2023-01-01", "2023-01-02"}
Periods == {1, 2}
Prices == {-100, 0, 50}
Volumes == {-1, 0, 2}
Demands == 0..MaxDemand

\* Offers of the curve under study (2023-01-01, period 1), in every price and
\* volume, and one cheap, large offer in another period and on another date.
OfferRows ==
    [Date : {"2023-01-01"}, Period : {1}, Price : Prices, Volume : Volumes]
    \cup {[Date |-> "2023-01-01", Period |-> 2, Price |-> -100, Volume |-> 2],
          [Date |-> "2023-01-02", Period |-> 1, Price |-> -100, Volume |-> 2]}

MeritTables == UNION {[1..n -> OfferRows] : n \in 0..MaxRows}
SeqMeritTables == UNION {[1..n -> OfferRows] : n \in 0..MaxSeqRows}

\* sort_values(kind='quicksort') is not a stable sort: the order it leaves
\* rows of equal price in is fixed for a given build and input, but not
\* specified.  "stable" keeps the input order, "reversed" reverses it.
SortKinds == {"stable", "reversed"}

VARIABLES
    merit_df,     \* the merit-order table handed to the engine
    sort_kind,    \* what the build's quicksort does with equal prices
    call,         \* the last call made: function and arguments
    sorted_df,    \* the curve that call built (with 'Cumulative Volume')
    result,       \* how that call ended: a returned value or a raised error
    dataset_type, \* the dataset_type argument of clean_market_data
    tables,       \* the frames the caller holds: the raw table, then what
                  \* each call of clean_market_data returned
    outcomes,     \* how each call of clean_market_data ended
    validate_df,      \* the table handed to validate_dataset
    validate_config,  \* the other arguments of validate_dataset
    report,           \* the report validate_dataset returned
    order_df,         \* the offers handed to calculate_all_clearing_prices
    usep_df,          \* the settlement rows handed to it
    all_prices,       \* how calculate_all_clearing_prices ended
    printed           \* the errors it printed

priceVars == <<merit_df, sort_kind, call, sorted_df, result>>
cleanVars == <<dataset_type, tables, outcomes>>
validateVars == <<validate_df, validate_config, report>>
allPricesVars == <<order_df, usep_df, all_prices, printed>>
vars == <<priceVars, cleanVars, validateVars, allPricesVars>>

NoCall == [fn |-> "none", date |-> "", period |-> 0, demand |-> 0]
NoResult == [kind |-> "none", value |-> 0, exc |-> "", msg |-> ""]
Return(v) == [kind |-> "return", value |-> v, exc |-> "", msg |-> ""]
Raise(e, m) == [kind |-> "raise", value |-> 0, exc |-> e, msg |-> m]

\* ------------------------------------------------------------------------
\* calculate_clearing_price
\* ------------------------------------------------------------------------

\* (df['Date'] == date) & (df['Period'] == period)
MatchesDatePeriod_NoPeriod(row, date, period) == row.Date = date
MatchesDatePeriod(row, date, period) ==
    row.Date = date /\ row.Period = period

\* df[mask].copy(): the rows the mask selects, in their order
OrderDf(df, date, period) ==
    SelectSeq(df, LAMBDA row : MatchesDatePeriod(row, date, period))

\* The sort's order on positions i, j of the frame: ascending price, and
\* among equal prices what the build's sort does.
SortsBefore_Unsorted(df, kind, i, j) == i < j
SortsBefore(df, kind, i, j) ==
    \/ df[i].Price < df[j].Price
    \/ /\ df[i].Price = df[j].Price
       /\ IF kind = "stable" THEN i < j ELSE i > j

\* sort_values('Lowest to Highest Offer Price ($/MWh)')
RECURSIVE SortPositions(_, _, _)
SortPositions(df, kind, S) ==
    IF S = {} THEN <<>>
    ELSE LET first == CHOOSE i \in S :
                        \A j \in S \ {i} : SortsBefore(df, kind, i, j)
         IN  <<first>> \o SortPositions(df, kind, S \ {first})

SortValues(df, kind) ==
    LET order == SortPositions(df, kind, DOMAIN df)
    IN  [k \in DOMAIN df |-> df[order[k]]]

\* Series.cumsum(): element k is the sum of elements 1..k
CumSum_NotCumulative(s) == s
RECURSIVE CumSum(_)
CumSum(s) ==
    IF Len(s) = 0 THEN <<>>
    ELSE LET front == CumSum(SubSeq(s, 1, Len(s) - 1))
         IN  Append(front, (IF Len(front) = 0 THEN 0 ELSE front[Len(front)])
                           + s[Len(s)])

\* sorted_df['Cumulative Volume'] = sorted_df[volume].cumsum()
WithCumulativeVolume(df) ==
    LET cum == CumSum([k \in DOMAIN df |-> df[k].Volume])
    IN  [k \in DOMAIN df |->
            [Date |-> df[k].Date, Period |-> df[k].Period,
             Price |-> df[k].Price, Volume |-> df[k].Volume,
             CumulativeVolume |-> cum[k]]]

\* The curve of lines 25-31 (and of plot_merit_order, lines 36-42)
MeritOrderCurve(df, kind, date, period) ==
    WithCumulativeVolume(SortValues(OrderDf(df, date, period), kind))

\* sorted_df['Cumulative Volume'] >= demand
ReachesDemand_Strict(cumulative, demand) == cumulative > demand
ReachesDemand(cumulative, demand) == cumulative >= demand

\* frame.iloc[0]: the first row, or IndexError on an empty frame
Iloc0_OrLast(frame, whole) ==
    IF Len(frame) > 0 THEN Return(frame[1].Price)
    ELSE IF Len(whole) > 0 THEN Return(whole[Len(whole)].Price)
    ELSE Raise("IndexError", "single positional indexer is out-of-bounds")
Iloc0(frame, whole) ==
    IF Len(frame) > 0 THEN Return(frame[1].Price)
    ELSE Raise("IndexError", "single positional indexer is out-of-bounds")

\* lines 33-36: the price of the first row whose cumulative volume reaches
\* the demand
ClearingPrice(curve, demand) ==
    Iloc0(SelectSeq(curve,
                    LAMBDA row : ReachesDemand(row.CumulativeVolume, demand)),
          curve)

CalculateClearingPrice(date, period, demand) ==
    LET curve == MeritOrderCurve(merit_df, sort_kind, date, period)
    IN  /\ call' = [fn |-> "calculate_clearing_price", date |-> date,
                    period |-> period, demand |-> demand]
        /\ sorted_df' = curve
        /\ result' = ClearingPrice(curve, demand)
        /\ UNCHANGED <<merit_df, sort_kind, cleanVars, validateVars, allPricesVars>>

\* merit_order.plot_merit_order builds the same curve and plots it
PlotMeritOrder(date, period) ==
    /\ call' = [fn |-> "plot_merit_order", date |-> date,
                period |-> period, demand |-> 0]
    /\ sorted_df' = MeritOrderCurve(merit_df, sort_kind, date, period)
    /\ result' = [kind |-> "figure", value |-> 0, exc |-> "", msg |-> ""]
    /\ UNCHANGED <<merit_df, sort_kind, cleanVars, validateVars, allPricesVars>>

\* The cleaner at rest, while the engine is studied
CleanIdle ==
    /\ dataset_type = "merit"
    /\ tables = <<>>
    /\ outcomes = <<>>

\* The validator at rest
ValidateIdle ==
    /\ validate_df = [columns |-> {}, rows |-> <<>>, object_cols |-> {}]
    /\ validate_config = [given |-> FALSE]
    /\ report = [returned |-> FALSE]

\* calculate_all_clearing_prices at rest
AllPricesIdle ==
    /\ order_df = [columns |-> {}, rows |-> <<>>]
    /\ usep_df = [columns |-> {}, rows |-> <<>>]
    /\ all_prices = [kind |-> "none"]
    /\ printed = <<>>

InitPrice ==
    /\ merit_df \in MeritTables
    /\ sort_kind \in SortKinds
    /\ call = NoCall
    /\ sorted_df = <<>>
    /\ result = NoResult
    /\ CleanIdle
    /\ ValidateIdle
    /\ AllPricesIdle

\* One call on the table: the engine is a pure function of its arguments.
NextPrice ==
    \/ \E date \in Dates, period \in Periods, demand \in Demands :
          call = NoCall /\ CalculateClearingPrice(date, period, demand)
    \/ \E date \in Dates, period \in Periods :
          call = NoCall /\ PlotMeritOrder(date, period)

SpecPrice == InitPrice /\ [][NextPrice]_vars

\* Any sequence of calls on one table, as in test_calculate_clearing_price
\* and calculate_all_clearing_prices, which call the engine in a loop.
InitPriceSeq ==
    /\ merit_df \in SeqMeritTables
    /\ sort_kind \in SortKinds
    /\ call = NoCall
    /\ sorted_df = <<>>
    /\ result = NoResult
    /\ CleanIdle
    /\ ValidateIdle
    /\ AllPricesIdle

NextPriceSeq ==
    \/ \E date \in Dates, period \in Periods, demand \in Demands :
          CalculateClearingPrice(date, period, demand)
    \/ \E date \in Dates, period \in Periods : PlotMeritOrder(date, period)

SpecPriceSeq == InitPriceSeq /\ [][NextPriceSeq]_vars

\* ------------------------------------------------------------------------
\* Cells and frames of the cleaner and the validator
\* ------------------------------------------------------------------------

\* A cell of a numeric column: a number, NaN (a missing value), or a text
\* that is no number (which makes the column's dtype object)
Num(v) == [nan |-> FALSE, v |-> v, text |-> FALSE]
NaN == [nan |-> TRUE, v |-> 0, text |-> FALSE]
Text == [nan |-> FALSE, v |-> 0, text |-> TRUE]

\* cell >= n and cell <= n: every comparison with NaN is False
Ge(cell, n) == ~ cell.nan /\ cell.v >= n
Le(cell, n) == ~ cell.nan /\ cell.v <= n

\* A cell of a date column: a string as read from the file, a missing value,
\* a Timestamp (tz is "naive" or a UTC offset) or NaT.  ParseError stands
\* for the exception pd.to_datetime raises on a string it cannot parse.
Str(s) ==
    [kind |-> "str", s |-> s, y |-> 0, m |-> 0, d |-> 0, h |-> 0, tz |-> ""]
NullDate ==
    [kind |-> "nan", s |-> "", y |-> 0, m |-> 0, d |-> 0, h |-> 0, tz |-> ""]
NaT ==
    [kind |-> "nat", s |-> "", y |-> 0, m |-> 0, d |-> 0, h |-> 0, tz |-> ""]
ParseError ==
    [kind |-> "error", s |-> "", y |-> 0, m |-> 0, d |-> 0, h |-> 0, tz |-> ""]
Timestamp(y, m, d, h, tz) ==
    [kind |-> "ts", s |-> "", y |-> y, m |-> m, d |-> d, h |-> h, tz |-> tz]

\* What the date parser makes of the strings used here ('40 Jan 2023' is the
\* example of line 217)
ParseDateString(s) ==
    CASE s = "01 Jan 2023" -> Timestamp(2023, 1, 1, 0, "naive")
      [] s = "31 Jan 2023" -> Timestamp(2023, 1, 31, 0, "naive")
      [] s = "2023-01-31" -> Timestamp(2023, 1, 31, 0, "naive")
      [] s = "2023-01-31 13:00" -> Timestamp(2023, 1, 31, 13, "naive")
      [] s = "2023-01-15T00:00:00+08:00" -> Timestamp(2023, 1, 15, 0, "+08:00")
      [] s = "31 Dec 2022" -> Timestamp(2022, 12, 31, 0, "naive")
      [] s = "01 Feb 2023" -> Timestamp(2023, 2, 1, 0, "naive")
      [] s = "15 Jan 2022" -> Timestamp(2022, 1, 15, 0, "naive")
      [] OTHER -> ParseError

\* pd.to_datetime(x, format='mixed') of one cell
ToDatetime(cell) ==
    CASE cell.kind = "str" -> ParseDateString(cell.s)
      [] cell.kind = "nan" -> NaT
      [] OTHER -> cell

\* ENERGY_MARKET_BOUNDS
EnergyMarketBounds ==
    [price  |-> [min |-> -5000, max |-> 5000],
     volume |-> [min |-> 0, max |-> 2000],
     period |-> [min |-> 1, max |-> 48],
     demand |-> [min |-> 4000, max |-> 8000],
     tcl    |-> [min |-> 0, max |-> 100]]

\* pd.DataFrame(): no column, no row
EmptyDataFrame == [columns |-> {}, rows |-> <<>>]

\* frame[mask]: a new frame of the rows at which the boolean series mask is
\* True, in their order
BooleanIndex(frame, mask) ==
    LET kept == {k \in DOMAIN frame.rows : mask[k]}
        nth(i) == CHOOSE k \in kept : Cardinality({j \in kept : j < k}) = i - 1
    IN  [columns |-> frame.columns,
         rows |-> [i \in 1..Cardinality(kept) |-> frame.rows[nth(i)]]]

\* ------------------------------------------------------------------------
\* clean_market_data
\* ------------------------------------------------------------------------
DatasetTypes == {"merit", "usep"}

DateCol(kind) == IF kind = "merit" THEN "Date" ELSE "DATE"
PeriodCol(kind) == IF kind = "merit" THEN "Period" ELSE "PERIOD"

\* is_valid_date: the cell parses and its day is in 1..31 (NaT.day is NaN,
\* a parse error is caught: both give False)
IsValidDate(cell) ==
    LET date == ToDatetime(cell)
    IN  date.kind = "ts" /\ 1 <= date.d /\ date.d <= 31

\* Lines 221-226 raise inside the try when the column cannot become one
\* datetime column: a cell that does not parse, or cells of more than one
\* time zone (tz-aware with tz-naive, or two UTC offsets), which pandas turns
\* into an object column, so that .dt raises, or rejects outright.
DateConversionRaises(frame, col) ==
    LET parsed == {ToDatetime(frame.rows[k][col]) : k \in DOMAIN frame.rows}
    IN  \/ \E p \in parsed : p.kind = "error"
        \/ Cardinality({p.tz : p \in {q \in parsed : q.kind = "ts"}}) > 1

\* frame[col] = series: the cells are replaced where the series has the row's
\* index label, and become NaT where it has not
SetDateColumn(frame, col, series) ==
    [columns |-> frame.columns,
     rows |-> [k \in DOMAIN frame.rows |->
                 [frame.rows[k] EXCEPT
                    ![col] = IF frame.rows[k].Index \in DOMAIN series
                             THEN series[frame.rows[k].Index]
                             ELSE NaT]]]

\* pd.to_datetime(frame[col], format='mixed'): a series on the frame's index
ToDatetimeSeries(frame, col) ==
    LET labels == {frame.rows[k].Index : k \in DOMAIN frame.rows}
    IN  [label \in labels |->
            ToDatetime((CHOOSE row \in {frame.rows[k] : k \in DOMAIN frame.rows} :
                            row.Index = label)[col])]

\* Line 221 assigns to cleaned_df, the frame line 218 made: of the objects
\* of the call (1 the caller's df, 2 its copy, 3 the masked frame), object 3
DateAssignmentTarget_Input(df_ref, cleaned_ref) == df_ref
DateAssignmentTarget(df_ref, cleaned_ref) == cleaned_ref

\* (dt.year == 2023) & (dt.month == 1)
IsJanuary2023(cell) == cell.kind = "ts" /\ cell.y = 2023 /\ cell.m = 1

\* (period >= 1) & (period <= 48)
PeriodInRange_Exclusive(cell) == Ge(cell, 1) /\ ~ Ge(cell, 48)
PeriodInRange(cell) == Ge(cell, 1) /\ Le(cell, 48)

WithinBounds(cell, bound) == Ge(cell, bound.min) /\ Le(cell, bound.max)

\* Lines 238-258: the rows whose price and volume (merit), or USEP and
\* demand (usep), lie within ENERGY_MARKET_BOUNDS
DomainFilter(frame, kind) ==
    IF kind = "merit"
    THEN BooleanIndex(frame, [k \in DOMAIN frame.rows |->
            /\ WithinBounds(frame.rows[k].Price, EnergyMarketBounds.price)
            /\ WithinBounds(frame.rows[k].Volume, EnergyMarketBounds.volume)])
    ELSE IF kind = "usep"
    THEN BooleanIndex(frame, [k \in DOMAIN frame.rows |->
            /\ WithinBounds(frame.rows[k].USEP, EnergyMarketBounds.price)
            /\ WithinBounds(frame.rows[k].DEMAND, EnergyMarketBounds.demand)])
    ELSE frame

CleanReturn == [kind |-> "return", exc |-> "", msg |-> ""]
CleanRaise(e, m) == [kind |-> "raise", exc |-> e, msg |-> m]

\* One run of clean_market_data on the caller's frame df.  The heap holds the
\* frames of the run: 1 the caller's, 2 df.copy(), 3 the frame of the rows
\* with a valid date.  Gives the caller's frame after the run, how the run
\* ended and the frame it returned.
CleanRun(df, kind) ==
    LET date_col == DateCol(kind)
        period_col == PeriodCol(kind)
        copied == <<df, df>>
    IN  IF date_col \notin copied[2].columns
        THEN [df |-> copied[1], outcome |-> CleanRaise("KeyError", date_col),
              returned |-> EmptyDataFrame]
        ELSE
        LET valid_dates_mask == [k \in DOMAIN copied[2].rows |->
                                    IsValidDate(copied[2].rows[k][date_col])]
            masked == Append(copied, BooleanIndex(copied[2], valid_dates_mask))
        IN  IF DateConversionRaises(masked[3], date_col)
            THEN [df |-> masked[1], outcome |-> CleanReturn,
                  returned |-> EmptyDataFrame]
            ELSE
            LET target == DateAssignmentTarget(1, 3)
                assigned == [masked EXCEPT ![target] =
                    SetDateColumn(@, date_col,
                                  ToDatetimeSeries(masked[3], date_col))]
            IN  IF \E k \in DOMAIN assigned[3].rows :
                       assigned[3].rows[k][date_col].kind # "ts"
                THEN \* .dt on a column that is not datetime raises
                     [df |-> assigned[1], outcome |-> CleanReturn,
                      returned |-> EmptyDataFrame]
                ELSE
                LET january == BooleanIndex(assigned[3],
                        [k \in DOMAIN assigned[3].rows |->
                            IsJanuary2023(assigned[3].rows[k][date_col])])
                    periods == BooleanIndex(january,
                        [k \in DOMAIN january.rows |->
                            PeriodInRange(january.rows[k][period_col])])
                IN  [df |-> assigned[1], outcome |-> CleanReturn,
                     returned |-> DomainFilter(periods, kind)]

\* clean_market_data(tables[last], dataset_type), as main calls it on the
\* raw table; a further call cleans what the call before returned
CleanMarketData ==
    /\ tables # <<>>
    /\ Len(outcomes) < MaxCleanCalls
    /\ Len(tables) = Len(outcomes) + 1
    /\ LET n == Len(tables)
           run == CleanRun(tables[n], dataset_type)
           held == [tables EXCEPT ![n] = run.df]
       IN  /\ tables' = IF run.outcome.kind = "return"
                        THEN Append(held, run.returned)
                        ELSE held
           /\ outcomes' = Append(outcomes, run.outcome)
    /\ UNCHANGED <<dataset_type, priceVars, validateVars, allPricesVars>>

\* The raw tables.  Dates: three January 2023 dates (one with a UTC offset),
\* three dates outside January 2023, a string that is no date, and a
\* missing value.
GoodDateCells ==
    {Str("01 Jan 2023"), Str("2023-01-31"), Str("2023-01-15T00:00:00+08:00")}
BadDateCells ==
    {Str("31 Dec 2022"), Str("01 Feb 2023"), Str("15 Jan 2022"),
     Str("40 Jan 2023"), NullDate}

\* (period, price, volume) of a merit row and (period, USEP, demand) of a
\* settlement row: both ends of every range, and every range left by one at
\* either end or by a missing period
GoodMeritNumbers == {<<1, -5000, 0>>, <<48, 5000, 2000>>}
BadMeritNumbers ==
    {<<0, -5000, 0>>, <<49, -5000, 0>>, <<1, -5001, 0>>, <<1, 5001, 0>>,
     <<1, -5000, -1>>, <<1, -5000, 2001>>}
GoodUsepNumbers == {<<1, -5000, 4000>>, <<48, 5000, 8000>>}
BadUsepNumbers ==
    {<<0, -5000, 4000>>, <<49, -5000, 4000>>, <<1, -5001, 4000>>,
     <<1, 5001, 4000>>, <<1, -5000, 3999>>, <<1, -5000, 8001>>}

RawCells(kind) ==
    LET good == IF kind = "merit" THEN GoodMeritNumbers ELSE GoodUsepNumbers
        bad == IF kind = "merit" THEN BadMeritNumbers ELSE BadUsepNumbers
        cells(date, n) == [date |-> date, period |-> Num(n[1]),
                           price |-> Num(n[2]), quantity |-> Num(n[3])]
    IN  {cells(date, n) : date \in GoodDateCells, n \in good \cup bad}
        \cup {cells(date, n) : date \in BadDateCells, n \in good}
        \cup {[date |-> date, period |-> NaN,
               price |-> Num(-5000), quantity |-> Num(2000)] :
                  date \in GoodDateCells}

\* The frame read from the file: a RangeIndex and the kind's columns
RawFrame(kind, cells) ==
    IF kind = "merit"
    THEN [columns |-> {"Date", "Period", "Price", "Volume"},
          rows |-> [k \in DOMAIN cells |->
                      [Index |-> k - 1, Date |-> cells[k].date,
                       Period |-> cells[k].period, Price |-> cells[k].price,
                       Volume |-> cells[k].quantity]]]
    ELSE [columns |-> {"DATE", "PERIOD", "USEP", "DEMAND"},
          rows |-> [k \in DOMAIN cells |->
                      [Index |-> k - 1, DATE |-> cells[k].date,
                       PERIOD |-> cells[k].period, USEP |-> cells[k].price,
                       DEMAND |-> cells[k].quantity]]]

\* The engine at rest, while the cleaner is studied
PriceIdle ==
    /\ merit_df = <<>>
    /\ sort_kind = "stable"
    /\ call = NoCall
    /\ sorted_df = <<>>
    /\ result = NoResult

InitClean ==
    /\ dataset_type \in DatasetTypes
    /\ \E n \in 0..MaxCleanRows :
          \E cells \in [1..n -> RawCells(dataset_type)] :
              tables = <<RawFrame(dataset_type, cells)>>
    /\ outcomes = <<>>
    /\ PriceIdle
    /\ ValidateIdle
    /\ AllPricesIdle

NextClean == CleanMarketData

SpecClean == InitClean /\ [][NextClean]_vars

\* ------------------------------------------------------------------------
\* validate_dataset
\* ------------------------------------------------------------------------

\* The header of each column, character by character.  The fields Price and
\* Volume stand for the merit-order headers of config.py.
ColumnName(col) ==
    CASE col = "Date" -> <<"D", "a", "t", "e">>
      [] col = "Period" -> <<"P", "e", "r", "i", "o", "d">>
      [] col = "Price" ->
           <<"L", "o", "w", "e", "s", "t", " ", "t", "o", " ", "H", "i", "g",
             "h", "e", "s", "t", " ", "O", "f", "f", "e", "r", " ", "P", "r",
             "i", "c", "e", " ", "(", "$", "/", "M", "W", "h", ")">>
      [] col = "Volume" ->
           <<"T", "o", "t", "a", "l", " ", "O", "f", "f", "e", "r", " ", "C",
             "a", "p", "a", "c", "i", "t", "y", " ", "A", "t", " ", "S", "p",
             "e", "c", "i", "f", "i", "e", "d", " ", "O", "f", "f", "e", "r",
             " ", "P", "r", "i", "c", "e", " ", "(", "M", "W", ")">>

\* str.lower() on the characters of the headers
LowerChar(c) ==
    CASE c = "A" -> "a"
      [] c = "B" -> "b"
      [] c = "C" -> "c"
      [] c = "D" -> "d"
      [] c = "E" -> "e"
      [] c = "F" -> "f"
      [] c = "G" -> "g"
      [] c = "H" -> "h"
      [] c = "I" -> "i"
      [] c = "J" -> "j"
      [] c = "K" -> "k"
      [] c = "L" -> "l"
      [] c = "M" -> "m"
      [] c = "N" -> "n"
      [] c = "O" -> "o"
      [] c = "P" -> "p"
      [] c = "Q" -> "q"
      [] c = "R" -> "r"
      [] c = "S" -> "s"
      [] c = "T" -> "t"
      [] c = "U" -> "u"
      [] c = "V" -> "v"
      [] c = "W" -> "w"
      [] c = "X" -> "x"
      [] c = "Y" -> "y"
      [] c = "Z" -> "z"
      [] OTHER -> c

Lower(name) == [k \in DOMAIN name |-> LowerChar(name[k])]

\* word in name
Contains(name, word) ==
    \E i \in 1..(Len(name) - Len(word) + 1) :
        SubSeq(name, i, i + Len(word) - 1) = word

\* Lines 123-133: the kind of bound a column is checked against, from the
\* first of these words its lower-cased header holds
BoundType(col) ==
    LET name == Lower(ColumnName(col))
    IN  IF Contains(name, <<"p", "r", "i", "c", "e">>) THEN "price"
        ELSE IF \/ Contains(name, <<"v", "o", "l", "u", "m", "e">>)
                \/ Contains(name, <<"c", "a", "p", "a", "c", "i", "t", "y">>)
        THEN "volume"
        ELSE IF Contains(name, <<"p", "e", "r", "i", "o", "d">>) THEN "period"
        ELSE IF Contains(name, <<"d", "e", "m", "a", "n", "d">>) THEN "demand"
        ELSE IF Contains(name, <<"t", "c", "l">>) THEN "tcl"
        ELSE "None"

\* custom_bounds of main
CustomBounds ==
    [price  |-> [min |-> -5000, max |-> 5000],
     volume |-> [min |-> 0, max |-> 2000],
     period |-> [min |-> 1, max |-> 48]]

\* The arguments main gives validate_dataset for the merit-order table
MainMeritConfig ==
    [expected_cols |-> {"Date", "Period", "Price", "Volume"},
     date_cols |-> {"Date"},
     numeric_cols |-> {"Period", "Price", "Volume"},
     bounds_given |-> TRUE,
     bounds_config |-> CustomBounds,
     date_range_given |-> TRUE,
     date_range |-> <<"01 Jan 2023", "31 Jan 2023">>]

\* validate_dataset(df): every optional argument left at None
DefaultConfig ==
    [expected_cols |-> {},
     date_cols |-> {},
     numeric_cols |-> {},
     bounds_given |-> FALSE,
     bounds_config |-> CustomBounds,
     date_range_given |-> FALSE,
     date_range |-> <<"", "">>]

Configs == {MainMeritConfig, DefaultConfig}

\* A cell is null: NaN in a numeric column, a missing value in a date column
IsNull(cell) ==
    IF "kind" \in DOMAIN cell THEN cell.kind \in {"nan", "nat"} ELSE cell.nan

\* df.isnull().sum() of one column
NullCount(df, col) ==
    Cardinality({k \in DOMAIN df.rows : IsNull(df.rows[k][col])})

\* The format pd.to_datetime guesses from a string ("None": no guess)
GuessFormat(s) ==
    CASE s \in {"01 Jan 2023", "31 Jan 2023", "31 Dec 2022", "01 Feb 2023",
                "15 Jan 2022"} -> "%d %b %Y"
      [] s = "2023-01-31" -> "%Y-%m-%d"
      [] s = "2023-01-31 13:00" -> "%Y-%m-%d %H:%M"
      [] s = "2023-01-15T00:00:00+08:00" -> "%Y-%m-%dT%H:%M:%S%z"
      [] OTHER -> "None"

\* pd.to_datetime(series, errors='coerce'): the format is guessed from the
\* first string of the column and every cell is parsed with it, a cell that
\* does not match giving NaT; without a guess each cell is parsed on its own.
ToDatetimeCoerce(cells) ==
    LET strings == {k \in DOMAIN cells : cells[k].kind = "str"}
        first == CHOOSE k \in strings : \A j \in strings : k <= j
        format == IF strings = {} THEN "None" ELSE GuessFormat(cells[first].s)
        alone(cell) == IF ToDatetime(cell).kind = "ts" THEN ToDatetime(cell)
                       ELSE NaT
    IN  [k \in DOMAIN cells |->
            IF format = "None" THEN alone(cells[k])
            ELSE IF cells[k].kind = "str" /\ GuessFormat(cells[k].s) = format
            THEN ParseDateString(cells[k].s)
            ELSE NaT]

\* .dt.normalize(): the time of day is set to midnight
Normalize(date) == IF date.kind = "ts" THEN [date EXCEPT !.h = 0] ELSE date

\* a < b on Timestamps
Before(a, b) ==
    \/ a.y < b.y
    \/ a.y = b.y /\ a.m < b.m
    \/ a.y = b.y /\ a.m = b.m /\ a.d < b.d
    \/ a.y = b.y /\ a.m = b.m /\ a.d = b.d /\ a.h < b.h

\* (dates < start_date) | (dates > end_date); NaT compares False
OutOfDateRange(date, start_date, end_date) ==
    date.kind = "ts" /\ (Before(date, start_date) \/ Before(end_date, date))

\* Lines 92-97 raise when the parsed column is not tz-naive: dates of two
\* time zones give an object column, on which .dt raises, and dates of one
\* UTC offset cannot be compared with the naive start_date
DateCheckRaises(dates) ==
    \E k \in DOMAIN dates : dates[k].kind = "ts" /\ dates[k].tz # "naive"

\* The elements of a sequence at the positions in S, in their order
Pick(seq, S) ==
    LET nth(i) == CHOOSE k \in S : Cardinality({j \in S : j < k}) = i - 1
    IN  [i \in 1..Cardinality(S) |-> seq[nth(i)]]

\* Lines 88-111 for one date column: what is recorded for it
DateCheck(df, col, date_range) ==
    LET start_date == ToDatetime(Str(date_range[1]))
        end_date == ToDatetime(Str(date_range[2]))
        cells == [k \in DOMAIN df.rows |-> df.rows[k][col]]
        parsed == ToDatetimeCoerce(cells)
        dates == [k \in DOMAIN parsed |-> Normalize(parsed[k])]
        invalid == {k \in DOMAIN dates : dates[k].kind # "ts"}
        out_of_range == {k \in DOMAIN dates :
                            OutOfDateRange(dates[k], start_date, end_date)}
    IN  IF DateCheckRaises(parsed)
        THEN [raised |-> TRUE, violation |-> FALSE,
              invalid_format |-> <<>>, out_of_range_dates |-> <<>>,
              total_violations |-> 0]
        ELSE [raised |-> FALSE,
              violation |-> invalid # {} \/ out_of_range # {},
              invalid_format |-> Pick(cells, invalid),
              out_of_range_dates |-> Pick(cells, out_of_range),
              total_violations |->
                  Cardinality(invalid) + Cardinality(out_of_range)]

\* pd.api.types.is_numeric_dtype(df[col])
IsNumericDtype(df, col) == col \notin df.object_cols

\* (df[col] < min) | (df[col] > max): the positions of the violating cells
DomainViolations(df, col, bound) ==
    {k \in DOMAIN df.rows :
        LET cell == df.rows[k][col]
        IN  ~ cell.nan /\ (cell.v < bound.min \/ cell.v > bound.max)}

\* df.duplicated().sum(): the rows equal to a row before them
Duplicates(df) ==
    Cardinality({k \in DOMAIN df.rows :
                    \E j \in 1..(k - 1) : df.rows[j] = df.rows[k]})

\* Lines 73-75: set(expected_cols) - set(df.columns); nothing where
\* expected_cols is None or empty
MissingColumns_None(df, expected_cols) == {}
MissingColumns(df, expected_cols) ==
    IF expected_cols # {} THEN expected_cols \ df.columns ELSE {}

\* validate_dataset(df, ...): the report returned.  issues_found is set where
\* the code sets it: with a missing column, a column with nulls, a date
\* violation, a failed date check, a non-numeric column and a duplicate; the
\* block recording a domain violation does not assign it.  The percentages
\* and the statistics recorded with a violation are left out, no table here
\* has more than five violations to list, and missing_columns is the empty
\* set where the code leaves the key out.
ValidationResults(df, config) ==
    LET domain_bounds == IF config.bounds_given THEN config.bounds_config
                         ELSE EnergyMarketBounds
        missing_cols == MissingColumns(df, config.expected_cols)
        with_nulls == {col \in df.columns : NullCount(df, col) > 0}
        date_checked == IF config.date_cols # {} /\ config.date_range_given
                        THEN config.date_cols \cap df.columns ELSE {}
        date_check == [col \in date_checked |->
                          DateCheck(df, col, config.date_range)]
        date_raised == {col \in date_checked : date_check[col].raised}
        date_violating == {col \in date_checked : date_check[col].violation}
        numeric_checked == config.numeric_cols \cap df.columns
        non_numeric == {col \in numeric_checked : ~ IsNumericDtype(df, col)}
        bounded == {col \in numeric_checked \ non_numeric :
                       BoundType(col) \in DOMAIN domain_bounds}
        violating == {col \in bounded :
            DomainViolations(df, col, domain_bounds[BoundType(col)]) # {}}
        duplicates == Duplicates(df)
    IN  [returned |-> TRUE,
         missing_columns |-> missing_cols,
         missing_values |-> [col \in with_nulls |-> NullCount(df, col)],
         data_types |->
             [col \in date_raised \cup non_numeric |->
                 IF col \in non_numeric THEN "Non-numeric data"
                 ELSE "Invalid date format"],
         date_violations |->
             [col \in date_violating |->
                 [invalid_format |-> date_check[col].invalid_format,
                  out_of_range_dates |-> date_check[col].out_of_range_dates,
                  total_violations |-> date_check[col].total_violations]],
         domain_violations |->
             [col \in violating |->
                 LET bound == domain_bounds[BoundType(col)]
                     found == DomainViolations(df, col, bound)
                 IN  [violations_count |-> Cardinality(found),
                      bounds |-> [min |-> bound.min, max |-> bound.max],
                      violation_examples |->
                          Pick([k \in DOMAIN df.rows |-> df.rows[k][col].v],
                               found)]],
         duplicates |-> duplicates,
         issues_found |->
             \/ missing_cols # {}
             \/ with_nulls # {}
             \/ date_violating # {}
             \/ date_raised # {}
             \/ non_numeric # {}
             \/ duplicates > 0]

NoReport ==
    [returned |-> FALSE, missing_columns |-> {}, missing_values |-> <<>>,
     data_types |-> <<>>, date_violations |-> <<>>,
     domain_violations |-> <<>>, duplicates |-> 0, issues_found |-> FALSE]

ValidateDataset ==
    /\ ~ report.returned
    /\ report' = ValidationResults(validate_df, validate_config)
    /\ UNCHANGED <<validate_df, validate_config, priceVars, cleanVars,
                   allPricesVars>>

\* The tables validated: rows that differ from a row within every bound in
\* at most one cell
BaseCells ==
    [Date |-> Str("01 Jan 2023"), Period |-> Num(1), Price |-> Num(-5000),
     Volume |-> Num(0)]

ValidateCells ==
    {BaseCells}
    \cup {[BaseCells EXCEPT !.Date = date] :
            date \in {Str("31 Jan 2023"), Str("2023-01-31"),
                      Str("2023-01-31 13:00"), Str("01 Feb 2023"),
                      Str("31 Dec 2022"), Str("40 Jan 2023"),
                      Str("2023-01-15T00:00:00+08:00"), NullDate}}
    \cup {[BaseCells EXCEPT !.Period = period] :
            period \in {Num(48), Num(0), Num(49), NaN}}
    \cup {[BaseCells EXCEPT !.Price = price] :
            price \in {Num(5000), Num(-5001), Num(5001), NaN}}
    \cup {[BaseCells EXCEPT !.Volume = volume] :
            volume \in {Num(2000), Num(-1), Num(2001), Num(5001), Text}}

MeritColumns == {"Date", "Period", "Price", "Volume"}

\* The sets of columns a table has: all four, or all but one
ColumnSets == {MeritColumns} \cup {MeritColumns \ {col} : col \in MeritColumns}

\* The frame of the given columns of the given rows.  A column holding a text
\* is of dtype object; so are the columns of a frame read without any row.
ValidateFrame(columns, cells, empty_is_object) ==
    [columns |-> columns,
     rows |-> [k \in DOMAIN cells |-> [col \in columns |-> cells[k][col]]],
     object_cols |->
        {col \in columns \ {"Date"} :
            \/ \E k \in DOMAIN cells : cells[k][col].text
            \/ cells = <<>> /\ empty_is_object}]

InitValidate ==
    /\ \E n \in 0..MaxValidateRows :
          \E cells \in [1..n -> ValidateCells], columns \in ColumnSets,
             empty_is_object \in BOOLEAN :
              validate_df = ValidateFrame(columns, cells, empty_is_object)
    /\ validate_config \in Configs
    /\ report = NoReport
    /\ PriceIdle
    /\ CleanIdle
    /\ AllPricesIdle

NextValidate == ValidateDataset

SpecValidate == InitValidate /\ [][NextValidate]_vars

\* ------------------------------------------------------------------------
\* calculate_all_clearing_prices
\* ------------------------------------------------------------------------

\* def calculate_clearing_price(df, date, period, demand): four parameters,
\* none with a default
ClearingPriceParameters == <<"df", "date", "period", "demand">>

\* Line 65: the arguments the loop calls calculate_clearing_price with
CallArguments_All(daily_merit, date, period, demand) ==
    <<daily_merit, date, period, demand>>
CallArguments(daily_merit, date, period, demand) == <<daily_merit, demand>>

\* The call with positional arguments: TypeError before the body runs when
\* parameters are left without a value, the result of the body otherwise
CallClearingPrice(args, kind) ==
    IF Len(args) # Len(ClearingPriceParameters)
    THEN Raise("TypeError",
               "calculate_clearing_price() missing 2 required positional arguments: 'period' and 'demand'")
    ELSE ClearingPrice(MeritOrderCurve(args[1], kind, args[2], args[3]),
                       args[4])

\* order_df[order_df['Date'] == date]
DailyMerit(order, date) == SelectSeq(order.rows, LAMBDA offer : offer.Date = date)

\* The first column the loop body reads that a frame lacks, in the order of
\* lines 56-61 ("" when none is lacking)
MissingKey(order, usep) ==
    IF "DATE" \notin usep.columns THEN "DATE"
    ELSE IF "PERIOD" \notin usep.columns THEN "PERIOD"
    ELSE IF "DEMAND (MW)" \notin usep.columns THEN "DEMAND (MW)"
    ELSE IF "Date" \notin order.columns THEN "Date"
    ELSE ""

\* Lines 55-73: the loop over the rows of usep_df from row i on; the result
\* rows and the printed lines so far are handed on.  A price row holds the
\* date and period its datetime is made of.
RECURSIVE AllPricesLoop(_, _, _, _, _, _)
AllPricesLoop(order, usep, kind, i, results, lines) ==
    IF i > Len(usep.rows)
    THEN [kind |-> "return", rows |-> results, exc |-> "", printed |-> lines]
    ELSE IF MissingKey(order, usep) # ""
    THEN [kind |-> "raise", rows |-> <<>>, exc |-> "KeyError",
          printed |-> lines]
    ELSE LET row == usep.rows[i]
             date == row["DATE"]
             period == row["PERIOD"]
             demand == row["DEMAND (MW)"]
             daily_merit == DailyMerit(order, date)
             calculated_price ==
                 CallClearingPrice(
                     CallArguments(daily_merit, date, period, demand), kind)
         IN  IF calculated_price.kind = "return"
                /\ "USEP ($/MWh)" \in usep.columns
             THEN AllPricesLoop(order, usep, kind, i + 1,
                      Append(results,
                             [datetime |-> <<date, period>>,
                              actual_usep |-> row["USEP ($/MWh)"],
                              calculated_price |-> calculated_price.value,
                              demand |-> demand]),
                      lines)
             ELSE AllPricesLoop(order, usep, kind, i + 1, results,
                      Append(lines,
                             [date |-> date, period |-> period,
                              error |-> IF calculated_price.kind = "return"
                                        THEN "KeyError"
                                        ELSE calculated_price.exc]))

CalculateAllClearingPrices ==
    LET run == AllPricesLoop(order_df, usep_df, sort_kind, 1, <<>>, <<>>)
    IN  /\ all_prices.kind = "none"
        /\ all_prices' = [kind |-> run.kind, rows |-> run.rows, exc |-> run.exc]
        /\ printed' = run.printed
        /\ UNCHANGED <<order_df, usep_df, priceVars, cleanVars, validateVars>>

\* The offers: a table with its Date column, or the frame without columns
\* that clean_market_data returns when the dates cannot be converted
OrderFrames ==
    {[columns |-> {"Date", "Period", "Price", "Volume"}, rows |-> rows] :
        rows \in UNION {[1..n -> OfferRows] : n \in 0..MaxOrderRows}}
    \cup {EmptyDataFrame}

UsepColumns == {"DATE", "PERIOD", "USEP ($/MWh)", "DEMAND (MW)"}

UsepCells ==
    {[col \in UsepColumns |->
        CASE col = "DATE" -> date
          [] col = "PERIOD" -> period
          [] col = "USEP ($/MWh)" -> 50
          [] col = "DEMAND (MW)" -> demand] :
        date \in Dates, period \in Periods, demand \in {2, MaxDemand}}

\* The settlement frames: every column, or all but one
UsepFrames ==
    {[columns |-> columns,
      rows |-> [k \in DOMAIN cells |-> [col \in columns |-> cells[k][col]]]] :
        columns \in {UsepColumns} \cup {UsepColumns \ {col} : col \in UsepColumns},
        cells \in UNION {[1..n -> UsepCells] : n \in 0..MaxUsepRows}}

InitAllPrices ==
    /\ order_df \in OrderFrames
    /\ usep_df \in UsepFrames
    /\ all_prices = [kind |-> "none"]
    /\ printed = <<>>
    /\ merit_df = <<>>
    /\ sort_kind \in SortKinds
    /\ call = NoCall
    /\ sorted_df = <<>>
    /\ result = NoResult
    /\ CleanIdle
    /\ ValidateIdle

NextAllPrices == CalculateAllClearingPrices

SpecAllPrices == InitAllPrices /\ [][NextAllPrices]_vars

\* ------------------------------------------------------------------------
\* Properties of the clearing-price engine
\* ------------------------------------------------------------------------
IsPriceCall == call.fn = "calculate_clearing_price"

\* The positions of merit_df whose row has the called date and period
MatchingPositions ==
    {i \in DOMAIN merit_df :
        merit_df[i].Date = call.date /\ merit_df[i].Period = call.period}

Offer(row) ==
    [Date |-> row.Date, Period |-> row.Period,
     Price |-> row.Price, Volume |-> row.Volume]

\* sorted_df holds exactly the matching rows of merit_df, each as often as
\* merit_df holds it, in ascending price order
CurveIsSortedMatchingRows ==
    /\ \A offer \in OfferRows :
          Cardinality({k \in DOMAIN sorted_df : Offer(sorted_df[k]) = offer})
          = Cardinality({i \in MatchingPositions : merit_df[i] = offer})
    /\ Len(sorted_df) = Cardinality(MatchingPositions)
    /\ \A j, k \in DOMAIN sorted_df :
          j < k => sorted_df[j].Price <= sorted_df[k].Price

\* The volume offered by rows 1..k of the sorted curve
RECURSIVE RunningVolume(_)
RunningVolume(k) ==
    IF k = 0 THEN 0 ELSE RunningVolume(k - 1) + sorted_df[k].Volume

RECURSIVE SumVolumes(_)
SumVolumes(S) ==
    IF S = {} THEN 0
    ELSE LET i == CHOOSE x \in S : TRUE
         IN  merit_df[i].Volume + SumVolumes(S \ {i})

\* The total volume offered for the called date and period
TotalVolume == SumVolumes(MatchingPositions)

HighestPrice ==
    CHOOSE p \in {merit_df[i].Price : i \in MatchingPositions} :
        \A i \in MatchingPositions : merit_df[i].Price <= p

LowestPrice ==
    CHOOSE p \in {merit_df[i].Price : i \in MatchingPositions} :
        \A i \in MatchingPositions : merit_df[i].Price >= p

SomeRowReaches ==
    \E k \in DOMAIN sorted_df : RunningVolume(k) >= call.demand

\* C1: when some row of the called (date, period) reaches the demand, the
\* call returns the price of the first row, in ascending price order over
\* exactly the rows of that date and period, whose running cumulative volume
\* is >= demand; rows of other dates or periods play no part.
C1_FirstRowReachingDemand ==
    IsPriceCall =>
        /\ CurveIsSortedMatchingRows
        /\ SomeRowReaches =>
              \E k \in DOMAIN sorted_df :
                  /\ RunningVolume(k) >= call.demand
                  /\ \A j \in 1..(k - 1) : RunningVolume(j) < call.demand
                  /\ result = Return(sorted_df[k].Price)

\* A call that returned the price of the second row of a two-row curve, on a
\* table that also holds a row of another period or date
C1_Witness ==
    /\ IsPriceCall
    /\ Cardinality(MatchingPositions) = 2
    /\ Len(merit_df) = 3
    /\ SomeRowReaches
    /\ ~ (RunningVolume(1) >= call.demand)
    /\ result.kind = "return"
    /\ result.value = 50

\* C2: a non-empty curve whose cumulative volume never reaches the demand
\* makes the call fail with an out-of-range error; no price is returned.
C2_UnmetDemandRaises ==
    (IsPriceCall /\ MatchingPositions # {} /\ ~ SomeRowReaches) =>
        /\ result.kind = "raise"
        /\ result.exc = "IndexError"
        /\ result.msg = "single positional indexer is out-of-bounds"

C2_Witness ==
    /\ IsPriceCall
    /\ Cardinality(MatchingPositions) >= 2
    /\ TotalVolume > 0
    /\ call.demand > TotalVolume
    /\ result.kind = "raise"

\* C3 (as claimed): the failure of a call that finds no row for its date and
\* period differs from the failure of a call whose non-empty curve cannot
\* meet the demand.
C3_NotFoundIsDistinct ==
    [][(/\ IsPriceCall /\ MatchingPositions = {}
        /\ IsPriceCall'
        /\ MatchingPositions' # {} /\ ~ SomeRowReaches')
       => /\ result.kind = "raise"
          /\ result'.kind = "raise"
          /\ <<result.exc, result.msg>> # <<result'.exc, result'.msg>>]_vars

\* C4: for one table, date and period, two calls that both return a price
\* return prices ordered as their demands are.
C4_MonotoneInDemand ==
    [][(/\ IsPriceCall /\ IsPriceCall'
        /\ call.date = call'.date /\ call.period = call'.period
        /\ result.kind = "return" /\ result'.kind = "return"
        /\ call.demand <= call'.demand)
       => result.value <= result'.value]_vars

\* A call that returned more than the lowest price of its curve, for a demand
\* above that of a call returning the lowest price
C4_Witness ==
    /\ IsPriceCall
    /\ result.kind = "return"
    /\ result.value > LowestPrice
    /\ call.demand > 0
    /\ ClearingPrice(sorted_df, call.demand - 1) = Return(LowestPrice)

\* C5 (as claimed): with demand equal to the total volume of a non-empty
\* curve the call returns the highest price offered in the curve.
C5_TotalVolumeGivesHighestPrice ==
    (IsPriceCall /\ MatchingPositions # {} /\ call.demand = TotalVolume) =>
        result = Return(HighestPrice)

AllVolumesPositive == \A i \in MatchingPositions : merit_df[i].Volume > 0

\* C5 (amended): with demand equal to the total volume of a non-empty curve
\* whose offers all have a positive volume, the call returns the highest
\* price offered in the curve.
C5_TotalVolumeGivesHighestPrice_Positive ==
    (/\ IsPriceCall /\ MatchingPositions # {}
     /\ AllVolumesPositive /\ call.demand = TotalVolume) =>
        result = Return(HighestPrice)

C5_Witness ==
    /\ IsPriceCall
    /\ Cardinality(MatchingPositions) = 2
    /\ AllVolumesPositive
    /\ call.demand = TotalVolume
    /\ LowestPrice < HighestPrice
    /\ result = Return(HighestPrice)

CumulativeIsNonDecreasing ==
    \A j, k \in DOMAIN sorted_df :
        j < k => sorted_df[j].CumulativeVolume <= sorted_df[k].CumulativeVolume

FinalCumulativeIsTotal ==
    Len(sorted_df) > 0 =>
        sorted_df[Len(sorted_df)].CumulativeVolume = TotalVolume

\* C6 (as claimed): along every curve built, the cumulative volume is
\* non-decreasing and ends at the sum of the curve's offer volumes.
C6_CumulativeVolume ==
    call.fn # "none" =>
        /\ CumulativeIsNonDecreasing
        /\ FinalCumulativeIsTotal

AllVolumesNonNegative == \A i \in MatchingPositions : merit_df[i].Volume >= 0

\* C6 (amended): along every curve built, the cumulative volume ends at the
\* sum of the curve's offer volumes, and it is non-decreasing when no offer
\* of the curve has a negative volume.
C6_CumulativeVolume_NonNegative ==
    call.fn # "none" =>
        /\ AllVolumesNonNegative => CumulativeIsNonDecreasing
        /\ FinalCumulativeIsTotal

C6_Witness ==
    /\ call.fn # "none"
    /\ Len(sorted_df) = 3
    /\ AllVolumesNonNegative
    /\ sorted_df[1].CumulativeVolume < sorted_df[2].CumulativeVolume
    /\ sorted_df[2].CumulativeVolume = sorted_df[3].CumulativeVolume
    /\ sorted_df[3].CumulativeVolume = TotalVolume

\* ------------------------------------------------------------------------
\* Properties of the cleaner
\* ------------------------------------------------------------------------
FirstCleanReturned == Len(outcomes) >= 1 /\ outcomes[1].kind = "return"

\* The date strings of the raw tables that name a day of January 2023
January2023Strings ==
    {"01 Jan 2023", "2023-01-31", "2023-01-15T00:00:00+08:00"}

\* The date strings of the raw tables that name a day at all
DateStrings ==
    January2023Strings \cup {"31 Dec 2022", "01 Feb 2023", "15 Jan 2022"}

InRange(cell, low, high) == ~ cell.nan /\ low <= cell.v /\ cell.v <= high

\* A merit row the claim keeps: a January 2023 date, a period in [1,48], a
\* price in [-5000,5000] and a volume in [0,2000]
MeritRowIsClean(row) ==
    /\ row.Date.kind = "str" /\ row.Date.s \in January2023Strings
    /\ InRange(row.Period, 1, 48)
    /\ InRange(row.Price, -5000, 5000)
    /\ InRange(row.Volume, 0, 2000)

\* The returned frame holds exactly the clean rows of the raw frame, in
\* their order, with period, price and volume as they were
ReturnsExactlyTheCleanRows ==
    LET raw == tables[1].rows
        out == tables[2].rows
        kept == SelectSeq(raw, MeritRowIsClean)
    IN  /\ Len(out) = Len(kept)
        /\ \A k \in DOMAIN out :
              /\ out[k].Index = kept[k].Index
              /\ out[k].Period = kept[k].Period
              /\ out[k].Price = kept[k].Price
              /\ out[k].Volume = kept[k].Volume

\* C7 (as claimed): clean_market_data with kind 'merit' returns exactly the
\* input rows, in their order, whose date is in January 2023, whose period is
\* in [1,48], whose price is in [-5000,5000] and whose volume is in [0,2000],
\* bounds included, unaltered in period, price and volume.
C7_MeritCleanKeepsExactlyValidRows ==
    (dataset_type = "merit" /\ FirstCleanReturned) =>
        ReturnsExactlyTheCleanRows

\* The rows whose date parses are not all of one time zone
RawDatesMixTimeZones ==
    LET raw == tables[1].rows
        aware == {k \in DOMAIN raw : raw[k].Date.kind = "str"
                     /\ raw[k].Date.s = "2023-01-15T00:00:00+08:00"}
        naive == {k \in DOMAIN raw : raw[k].Date.kind = "str"
                     /\ raw[k].Date.s \in DateStrings
                     /\ raw[k].Date.s # "2023-01-15T00:00:00+08:00"}
    IN  aware # {} /\ naive # {}

\* C7 (amended): as claimed when the dates that parse are all of one time
\* zone; when they are not, the column cannot be converted and the call
\* returns an empty table without columns.
C7_MeritCleanKeepsExactlyValidRows_OneZone ==
    (dataset_type = "merit" /\ FirstCleanReturned) =>
        IF RawDatesMixTimeZones
        THEN tables[2] = EmptyDataFrame
        ELSE ReturnsExactlyTheCleanRows

\* A row at the upper end of every range is kept and a row one past the end
\* of the period range, before it in the table, is dropped
C7_Witness ==
    /\ dataset_type = "merit" /\ FirstCleanReturned
    /\ Len(tables[1].rows) = 2
    /\ tables[1].rows[1].Period = Num(49)
    /\ tables[1].rows[2].Period = Num(48)
    /\ tables[1].rows[2].Price = Num(5000)
    /\ tables[1].rows[2].Volume = Num(2000)
    /\ Len(tables[2].rows) = 1
    /\ tables[2].rows[1].Index = 1
    /\ tables[2].rows[1].Date = Timestamp(2023, 1, 31, 0, "naive")

\* C8 (as claimed): cleaning the table a first cleaning returned, with the
\* same kind, returns a table of the same rows.
C8_CleanIsIdempotent ==
    Len(outcomes) >= 2 =>
        /\ outcomes[2].kind = "return"
        /\ Len(tables) >= 3
        /\ tables[3].rows = tables[2].rows

\* C9: a call of clean_market_data leaves every frame the caller holds, the
\* frame it is given among them, as it was: same rows, same cells, the date
\* column unconverted.
C9_InputIsNotMutated ==
    [][\A k \in DOMAIN tables : tables'[k] = tables[k]]_vars

\* After a call that converted and returned dates, and after a second call
\* on its result, the raw frame still holds its date strings
C9_Witness ==
    /\ dataset_type = "merit"
    /\ Len(outcomes) = 2
    /\ Len(tables) = 3
    /\ Len(tables[1].rows) = 2
    /\ Len(tables[3].rows) = 1
    /\ tables[3].rows[1].Date.kind = "ts"
    /\ \A k \in DOMAIN tables[1].rows : tables[1].rows[k].Date.kind = "str"

\* The early return too leaves the raw frame as it was
C9_WitnessEarlyReturn ==
    /\ dataset_type = "merit"
    /\ Len(outcomes) = 1
    /\ RawDatesMixTimeZones
    /\ tables[2] = EmptyDataFrame
    /\ Len(tables[1].rows) = 2

\* C8, where the second cleaning returns: it gives the rows of the first
C8_ReturningRecleanKeepsRows ==
    (Len(outcomes) >= 2 /\ outcomes[2].kind = "return") =>
        tables[3].rows = tables[2].rows


\* ------------------------------------------------------------------------
\* Properties of validate_dataset
\* ------------------------------------------------------------------------

\* One of the checks recorded something in the report
AnyFinding ==
    \/ report.missing_columns # {}
    \/ DOMAIN report.missing_values # {}
    \/ DOMAIN report.date_violations # {}
    \/ DOMAIN report.data_types # {}
    \/ DOMAIN report.domain_violations # {}
    \/ report.duplicates > 0

\* C10: in a report validate_dataset returned, issues_found is true exactly
\* when some check found something: a missing column, a column with missing
\* values, a date violation, a data-type issue, a domain violation or a
\* duplicate row.
C10_IssuesFoundIffAnyFinding ==
    report.returned => (report.issues_found <=> AnyFinding)

\* The report that breaks C10: a domain violation is its only finding and
\* issues_found is false
C10_DomainViolationOnly ==
    /\ report.returned
    /\ DOMAIN report.domain_violations # {}
    /\ report.missing_columns = {}
    /\ DOMAIN report.missing_values = {}
    /\ DOMAIN report.date_violations = {}
    /\ DOMAIN report.data_types = {}
    /\ report.duplicates = 0
    /\ ~ report.issues_found

\* One direction of C10 as the code has it: issues_found is never set
\* without a finding
C10_IssuesFoundImpliesFinding ==
    report.returned /\ report.issues_found => AnyFinding

\* A date cell, read on its own, is a day of [start, end] of the date range
DateCellInRange(cell, date_range) ==
    LET date == Normalize(ToDatetime(cell))
    IN  /\ date.kind = "ts"
        /\ ~ OutOfDateRange(date, ToDatetime(Str(date_range[1])),
                            ToDatetime(Str(date_range[2])))

\* A numeric cell is a number within the bound named for its column
NumberCellInBounds(cell, bound) ==
    ~ cell.nan /\ ~ cell.text /\ cell.v >= bound.min /\ cell.v <= bound.max

\* The bound each column of the merit-order table is meant to be held to
IntendedBound ==
    [Period |-> CustomBounds.period, Price |-> CustomBounds.price,
     Volume |-> CustomBounds.volume]

\* The table validated has every expected column, no null cell, no
\* duplicate row, every date in the date range and every number in bounds
TableIsClean ==
    /\ validate_config = MainMeritConfig
    /\ validate_config.expected_cols \subseteq validate_df.columns
    /\ \A k \in DOMAIN validate_df.rows :
          /\ \A col \in validate_df.columns : ~ IsNull(validate_df.rows[k][col])
          /\ DateCellInRange(validate_df.rows[k]["Date"],
                             validate_config.date_range)
          /\ \A col \in validate_config.numeric_cols :
                NumberCellInBounds(validate_df.rows[k][col], IntendedBound[col])
    /\ Duplicates(validate_df) = 0

\* The report holds no finding at all
ZeroIssues ==
    /\ ~ report.issues_found
    /\ report.duplicates = 0
    /\ report.missing_columns = {}
    /\ DOMAIN report.missing_values = {}
    /\ DOMAIN report.data_types = {}
    /\ DOMAIN report.date_violations = {}
    /\ DOMAIN report.domain_violations = {}

\* C11: for a table that has every expected column, no null cell, no
\* duplicate row, every date within the date range and every numeric column
\* within its bounds, validate_dataset reports zero issues.
C11_CleanTableHasZeroIssues ==
    report.returned /\ TableIsClean => ZeroIssues

\* The date strings of the table are all of one format, without UTC offset
DatesShareNaiveFormat ==
    \A k \in DOMAIN validate_df.rows :
        LET cell == validate_df.rows[k]["Date"]
        IN  /\ cell.kind = "str"
            /\ GuessFormat(cell.s) = GuessFormat(validate_df.rows[1]["Date"].s)
            /\ ToDatetime(cell).kind = "ts" => ToDatetime(cell).tz = "naive"

\* C11 where it holds in the code: the dates are written in one format
\* without UTC offset and the numeric columns are of a numeric dtype
C11_CleanTableHasZeroIssues_OneFormat ==
    /\ report.returned
    /\ TableIsClean
    /\ DatesShareNaiveFormat
    /\ validate_df.object_cols = {}
    => ZeroIssues

\* A clean table of two rows in one date format has been validated
C11_WitnessOneFormat ==
    /\ report.returned
    /\ TableIsClean
    /\ DatesShareNaiveFormat
    /\ validate_df.object_cols = {}
    /\ Len(validate_df.rows) = 2
    /\ ZeroIssues

\* A clean table whose in-range dates are written in two formats is reported
\* with a date violation
C11_MixedFormatsReported ==
    /\ report.returned
    /\ TableIsClean
    /\ "Date" \in DOMAIN report.date_violations
    /\ report.issues_found

\* The arguments of the call without the columns the table does not have
ConfigOfPresentColumns ==
    [validate_config EXCEPT
        !.expected_cols = @ \cap validate_df.columns,
        !.date_cols = @ \cap validate_df.columns,
        !.numeric_cols = @ \cap validate_df.columns]

\* The report of the same table when only its own columns are asked for
ReportOfPresentColumns ==
    ValidationResults(validate_df, ConfigOfPresentColumns)

\* An expected column is absent from the table validated
ExpectedColumnAbsent ==
    /\ report.returned
    /\ \E col \in validate_config.expected_cols : col \notin validate_df.columns

\* C12: when an expected column is absent, validate_dataset records exactly
\* the absent expected columns under missing_columns, sets issues_found and
\* still returns a report in which the missing-value, date, domain and
\* duplicate checks have run on the columns present, also when the absent
\* column is listed as a date or numeric column.
C12_MissingColumnRecordedChecksContinue ==
    ExpectedColumnAbsent =>
        /\ report.missing_columns =
              {col \in validate_config.expected_cols :
                  col \notin validate_df.columns}
        /\ report.issues_found
        /\ report.missing_values = ReportOfPresentColumns.missing_values
        /\ report.date_violations = ReportOfPresentColumns.date_violations
        /\ report.data_types = ReportOfPresentColumns.data_types
        /\ report.domain_violations = ReportOfPresentColumns.domain_violations
        /\ report.duplicates = ReportOfPresentColumns.duplicates
        /\ \A col \in validate_df.columns :
              col \in DOMAIN report.missing_values <=>
                  \E k \in DOMAIN validate_df.rows :
                      IsNull(validate_df.rows[k][col])

\* The capacity column, a numeric column, is absent, and the checks of the
\* other columns have found a date out of range and a period out of bounds
C12_Witness ==
    /\ ExpectedColumnAbsent
    /\ report.missing_columns = {"Volume"}
    /\ "Date" \in DOMAIN report.date_violations
    /\ "Period" \in DOMAIN report.domain_violations
    /\ report.issues_found

\* The date column is absent and a null price has been counted
C12_WitnessDateAbsent ==
    /\ ExpectedColumnAbsent
    /\ report.missing_columns = {"Date"}
    /\ "Price" \in DOMAIN report.missing_values
    /\ DOMAIN report.date_violations = {}

\* The capacity column ("Total Offer Capacity At Specified Offer Price
\* (MW)") has been through the domain check of a call made as main makes it
CapacityColumnChecked ==
    /\ report.returned
    /\ validate_config = MainMeritConfig
    /\ "Volume" \in validate_df.columns
    /\ IsNumericDtype(validate_df, "Volume")

\* The rows whose capacity lies outside the given bound
CapacityOutside(bound) ==
    {k \in DOMAIN validate_df.rows :
        LET cell == validate_df.rows[k]["Volume"]
        IN  ~ cell.nan /\ (cell.v < bound.min \/ cell.v > bound.max)}

\* C13: the column named "Total Offer Capacity At Specified Offer Price
\* (MW)" is classified under the volume bound, through the substring
\* "capacity": its values are checked against the volume range, not against
\* the price range.
C13_CapacityCheckedAgainstVolumeBound ==
    CapacityColumnChecked =>
        /\ BoundType("Volume") = "volume"
        /\ "Volume" \in DOMAIN report.domain_violations <=>
              CapacityOutside(CustomBounds.volume) # {}
        /\ "Volume" \in DOMAIN report.domain_violations =>
              report.domain_violations["Volume"].bounds = CustomBounds.volume

\* What the code does with the column: its header holds "price", the first
\* word looked for, so its values are checked against the price range
C13_CapacityCheckedAgainstPriceBound ==
    CapacityColumnChecked =>
        /\ BoundType("Volume") = "price"
        /\ "Volume" \in DOMAIN report.domain_violations <=>
              CapacityOutside(CustomBounds.price) # {}
        /\ "Volume" \in DOMAIN report.domain_violations =>
              report.domain_violations["Volume"].bounds = CustomBounds.price

\* A capacity above the volume range and within the price range has been
\* validated without a domain violation
C13_CapacityAboveVolumeRangeUnreported ==
    /\ CapacityColumnChecked
    /\ \E k \in DOMAIN validate_df.rows :
          validate_df.rows[k]["Volume"] = Num(2001)
    /\ "Volume" \notin DOMAIN report.domain_violations

\* The date column has been through the date check of a call made as main
\* makes it
DateColumnChecked ==
    /\ report.returned
    /\ validate_config = MainMeritConfig
    /\ "Date" \in validate_df.columns

DateCells == [k \in DOMAIN validate_df.rows |-> validate_df.rows[k]["Date"]]

\* The cells that do not parse as a date, each read on its own
UnparseableCells ==
    {k \in DOMAIN DateCells : ToDatetime(DateCells[k]).kind # "ts"}

\* The cells that parse to a day before the start day or after the end day
\* of the date range
OutOfRangeCells ==
    {k \in DOMAIN DateCells :
        LET date == ToDatetime(DateCells[k])
            start_date == ToDatetime(Str(validate_config.date_range[1]))
            end_date == ToDatetime(Str(validate_config.date_range[2]))
            day(t) == (t.y * 12 + t.m) * 31 + t.d
        IN  /\ date.kind = "ts"
            /\ (day(date) < day(start_date) \/ day(date) > day(end_date))}

\* The date section of the report lists exactly the unparseable cells as
\* invalid format and exactly the cells of a day outside the range as out of
\* range, counts both, and is absent when there is neither
DateSectionClassifiesEachCell ==
    IF UnparseableCells = {} /\ OutOfRangeCells = {}
    THEN "Date" \notin DOMAIN report.date_violations
    ELSE /\ "Date" \in DOMAIN report.date_violations
         /\ report.date_violations["Date"].invalid_format =
               Pick(DateCells, UnparseableCells)
         /\ report.date_violations["Date"].out_of_range_dates =
               Pick(DateCells, OutOfRangeCells)
         /\ report.date_violations["Date"].total_violations =
               Cardinality(UnparseableCells) + Cardinality(OutOfRangeCells)

\* C14: in the date check every cell of a date column falls in exactly one
\* class: unparseable cells are reported as invalid format, parseable cells
\* of a day strictly outside [start, end] as out of range, cells of the start
\* or end day are not reported; total_violations is the number of invalid
\* cells plus the number of out-of-range cells, and a column with neither
\* has no date_violations entry.
C14_DateCellsClassified ==
    DateColumnChecked => DateSectionClassifiesEachCell

\* Every date string that parses is written in the format of the first
\* string of the column, or the first string has no format to guess, and no
\* date carries a UTC offset
DatesReadInColumnFormat ==
    LET strings == {k \in DOMAIN DateCells : DateCells[k].kind = "str"}
    IN  \A k \in strings :
            /\ \/ ToDatetime(DateCells[k]).kind # "ts"
               \/ \A j \in strings :
                     (\A i \in strings : j <= i) =>
                        GuessFormat(DateCells[j].s) \in
                            {"None", GuessFormat(DateCells[k].s)}
            /\ ToDatetime(DateCells[k]).kind = "ts" =>
                  ToDatetime(DateCells[k]).tz = "naive"

\* C14 where it holds in the code: the parseable dates of the column share
\* the format of its first string and carry no UTC offset
C14_DateCellsClassified_OneFormat ==
    DateColumnChecked /\ DatesReadInColumnFormat =>
        DateSectionClassifiesEachCell

\* A column with an unparseable cell and a cell after the end day has been
\* checked and both are counted
C14_WitnessOneFormat ==
    /\ DateColumnChecked
    /\ DatesReadInColumnFormat
    /\ UnparseableCells # {}
    /\ OutOfRangeCells # {}
    /\ report.date_violations["Date"].total_violations = 2

\* A cell of the end day, written in another format than the first cell of
\* the column, is reported as invalid format
C14_EndDayReportedInvalid ==
    /\ DateColumnChecked
    /\ Len(DateCells) = 2
    /\ DateCells[1] = Str("01 Jan 2023")
    /\ DateCells[2] = Str("2023-01-31")
    /\ "Date" \in DOMAIN report.date_violations
    /\ report.date_violations["Date"].invalid_format = <<Str("2023-01-31")>>

\* ------------------------------------------------------------------------
\* Row order and the clearing price
\* ------------------------------------------------------------------------

\* The ways of reordering the rows of merit_df
RowOrders ==
    {p \in [DOMAIN merit_df -> DOMAIN merit_df] :
        \A i, j \in DOMAIN merit_df : i # j => p[i] # p[j]}

\* The outcome of the call made, had the table come with its rows in the
\* order p and the sort left equal prices in the order kind
OutcomeUnder(p, kind) ==
    ClearingPrice(MeritOrderCurve([k \in DOMAIN merit_df |-> merit_df[p[k]]],
                                  kind, call.date, call.period),
                  call.demand)

\* C15: the result of calculate_clearing_price does not depend on the order
\* of the input rows nor on the order the sort leaves equal prices in: on
\* every reordering of the table the same call gives the same price, or
\* fails as well.
C15_RowOrderIsImmaterial ==
    IsPriceCall =>
        \A p \in RowOrders, kind \in SortKinds : OutcomeUnder(p, kind) = result

\* C15 (amended): the result does not depend on the order of the rows nor on
\* the order of equal prices when no offer of the called date and period has
\* a negative volume.
C15_RowOrderIsImmaterial_NonNegative ==
    IsPriceCall /\ AllVolumesNonNegative =>
        \A p \in RowOrders, kind \in SortKinds : OutcomeUnder(p, kind) = result

\* A price has been returned from a curve in which two offers of one price
\* and of different non-negative volumes can stand either way round
C15_Witness ==
    /\ IsPriceCall
    /\ AllVolumesNonNegative
    /\ result.kind = "return"
    /\ call.demand > 0
    /\ \E i, j \in MatchingPositions :
          /\ i # j
          /\ merit_df[i].Price = merit_df[j].Price
          /\ merit_df[i].Volume # merit_df[j].Volume
    /\ \E p \in RowOrders :
          MeritOrderCurve([k \in DOMAIN merit_df |-> merit_df[p[k]]],
                          sort_kind, call.date, call.period) # sorted_df

\* ------------------------------------------------------------------------
\* Properties of calculate_all_clearing_prices
\* ------------------------------------------------------------------------

AllPricesDone == all_prices.kind # "none"

\* The function returned an empty table, and for every settlement row one
\* line was printed with its date and period for the TypeError of its call
EveryCallFailedAndWasPrinted ==
    /\ all_prices.kind = "return"
    /\ all_prices.rows = <<>>
    /\ Len(printed) = Len(usep_df.rows)
    /\ \A k \in DOMAIN printed :
          /\ printed[k].date = usep_df.rows[k]["DATE"]
          /\ printed[k].period = usep_df.rows[k]["PERIOD"]
          /\ printed[k].error = "TypeError"

LoopColumnsPresent ==
    usep_df.rows = <<>> \/ MissingKey(order_df, usep_df) = ""

C16_WitnessKeyError ==
    /\ AllPricesDone
    /\ order_df = EmptyDataFrame
    /\ usep_df.columns = UsepColumns
    /\ all_prices.kind = "raise"

====
